---- MODULE Spec2Model ----
(***************************************************************************)
(* Model of the ai-helpers catalog tooling:                                *)
(*   scripts/validate_tools.py   (the consistency validator and scanner)   *)
(*   scripts/build-website.py    (the website-data generator)              *)
(*                                                                         *)
(* JSON/YAML strings are sequences of one-character strings.  Any other    *)
(* JSON value is a record [ty, s]: ty is Python's type(v).__name__ and s   *)
(* is str(v), the text an f-string renders.  A JSON object used as a tool  *)
(* or category entry carries its key/value mapping in the field d.         *)
(***************************************************************************)
EXTENDS Integers, Sequences, FiniteSets, TLC

VARIABLES
    tools_data,     \* the parsed tools.json document
    helpers_dir,    \* the helpers/ asset tree next to tools.json
    pc,             \* "loaded", then "validated" once the validator has run
    planned,        \* number of validator processes the scenario runs
    runs,           \* number of validator processes run so far
    result,         \* outcome of the latest validate_tools_json call
    prev_result,    \* outcome of the validator run before it
    website,        \* outcome of build_website_data
    plugins_config, \* claude-external-plugin-sources.json
    marketplace     \* outcome of update_claude_settings.py

vars == <<tools_data, helpers_dir, pc, planned, runs, result, prev_result, website,
          plugins_config, marketplace>>

-----------------------------------------------------------------------------
(* Bounds of the model *)

MaxTools == 3
MaxRuns == 2
MaxLen == 3
MaxPlugins == 3

-----------------------------------------------------------------------------
(* Strings *)

Range(f) == {f[i] : i \in DOMAIN f}

\* Characters in code-point order, as Python's str comparison orders them.
Alphabet == <<" ", "!", "-", ".", "1", "A", "B", "C", "D", "E", "G", "M", "R",
              "_", "a", "b", "c", "d", "e", "g", "i", "l", "m", "o", "p", "r",
              "s", "t", "u", "x", "y">>

Ord(ch) == CHOOSE i \in DOMAIN Alphabet : Alphabet[i] = ch

\* str < str: lexicographic on code points.
RECURSIVE StrLess(_, _)
StrLess(a, b) ==
    IF b = <<>> THEN FALSE
    ELSE IF a = <<>> THEN TRUE
    ELSE IF Head(a) = Head(b) THEN StrLess(Tail(a), Tail(b))
    ELSE Ord(Head(a)) < Ord(Head(b))

\* sorted(S) for a set of strings.
RECURSIVE SortedStrings(_)
SortedStrings(S) ==
    IF S = {} THEN <<>>
    ELSE LET m == CHOOSE x \in S : \A y \in S \ {x} : StrLess(x, y)
         IN  <<m>> \o SortedStrings(S \ {m})

IsSpace(ch) == ch = " "

UpperCase == <<"A", "B", "C", "D", "E", "G", "M", "R">>
LowerCase == <<"a", "b", "c", "d", "e", "g", "m", "r">>

\* str.lower()
LowerChar(ch) ==
    IF ch \in Range(UpperCase)
    THEN LowerCase[CHOOSE i \in DOMAIN UpperCase : UpperCase[i] = ch]
    ELSE ch

Lower(s) == [i \in DOMAIN s |-> LowerChar(s[i])]

IsAlnum(ch) ==
    ch \in Range(UpperCase) \cup Range(LowerCase)
           \cup {"1", "i", "l", "o", "p", "s", "t", "u", "x", "y"}

\* str.strip(): leading and trailing whitespace removed.
RECURSIVE LStrip(_)
LStrip(s) == IF s # <<>> /\ IsSpace(Head(s)) THEN LStrip(Tail(s)) ELSE s

RECURSIVE RStrip(_)
RStrip(s) ==
    IF s # <<>> /\ IsSpace(s[Len(s)]) THEN RStrip(SubSeq(s, 1, Len(s) - 1)) ELSE s

Strip(s) == RStrip(LStrip(s))

\* str(i) for the small indexes the model uses.
Digits == <<"0", "1", "2", "3", "4", "5", "6", "7", "8", "9">>

IntStr(i) == <<Digits[i + 1]>>

-----------------------------------------------------------------------------
(* JSON values *)

Str(s) == [ty |-> "str", s |-> s]
None == [ty |-> "NoneType", s |-> <<"N", "o", "n", "e">>]
Int5 == [ty |-> "int", s |-> <<"5">>]
BoolTrue == [ty |-> "bool", s |-> <<"T", "r", "u", "e">>]
ListX == [ty |-> "list", s |-> <<"[", "'", "x", "'", "]">>]
ListEmpty == [ty |-> "list", s |-> <<"[", "]">>]

\* A JSON object with mapping d; an element of `tools` that is no object
\* has an empty mapping that is never read.
Obj(d) == [ty |-> "dict", s |-> <<>>, d |-> d]
NonObj(v) == [ty |-> v.ty, s |-> v.s, d |-> <<>>]

IsStr(v) == v.ty = "str"
IsDict(v) == v.ty = "dict"

\* bool(v)
Truthy(v) ==
    CASE v.ty = "NoneType" -> FALSE
      [] v.ty = "str" -> v.s # <<>>
      [] v.ty = "list" -> v.s # ListEmpty.s
      [] v.ty = "int" -> v.s # <<"0">>
      [] v.ty = "bool" -> v.s = BoolTrue.s
      [] OTHER -> TRUE

\* hash(v) succeeds: lists and dicts are unhashable.
Hashable(v) == v.ty \notin {"list", "dict"}

\* dict.get(key, default)
Get(obj, key, default) == IF key \in DOMAIN obj.d THEN obj.d[key] ELSE default

Keys(obj) == DOMAIN obj.d

-----------------------------------------------------------------------------
(* validate_tools.py: constants *)

VALID_TOOL_TYPES == {<<"s", "k", "i", "l", "l">>,
                     <<"c", "o", "m", "m", "a", "n", "d">>,
                     <<"a", "g", "e", "n", "t">>,
                     <<"g", "e", "m">>}

REQUIRED_TOOL_FIELDS == {"name", "description", "type", "category"}

ALLOWED_TOOL_FIELDS == REQUIRED_TOOL_FIELDS

\* Dictionary keys of the model in sorted() order.
KeyOrder == <<"category", "description", "extra", "name", "type">>

SortedKeys(S) == SelectSeq(KeyOrder, LAMBDA k : k \in S)

\* The iteration orders a set of the four field names can have: Python
\* randomises str hashes per process, so each process has one of these.
HashOrders ==
    {o \in [1..4 -> REQUIRED_TOOL_FIELDS] : Range(o) = REQUIRED_TOOL_FIELDS}

\* Iterating the set S of field names in a process whose hash order is order.
IterSet(S, order) == SelectSeq(order, LAMBDA k : k \in S)

-----------------------------------------------------------------------------
(* Error strings.  An error is the record of the message template (kind)   *)
(* and of the values formatted into it.                                    *)

Err(kind, subj, field, got, arg) ==
    [kind |-> kind, subj |-> subj, field |-> field, got |-> got, arg |-> arg]

\* A call's outcome: the exception it raised ("" for none) and the list it
\* returned.
Returned(errors) == [exc |-> "", errors |-> errors]
Raised(exc) == [exc |-> exc, errors |-> <<>>]

\* Flattening a sequence of error lists.
RECURSIVE Concat(_)
Concat(ss) == IF ss = <<>> THEN <<>> ELSE Head(ss) \o Concat(Tail(ss))

-----------------------------------------------------------------------------
(* validate_tool_structure *)

\* tool.get("name", f"tool[{index}]") as the f-strings render it.
ToolLabel(tool, index) ==
    Get(tool, "name", Str(<<"t", "o", "o", "l", "[">> \o IntStr(index) \o <<"]">>)).s

\* Lines 143-152: the string checks of one field.
FieldStringErrors(tool, tool_name, f) ==
    LET value == Get(tool, f, None)
    IN  IF value = None THEN <<>>
        ELSE IF ~IsStr(value)
             THEN <<Err("not_string", tool_name, f, value.ty, <<>>)>>
        ELSE IF Strip(value.s) = <<>>
             THEN <<Err("empty", tool_name, f, "", <<>>)>>
        ELSE <<>>

validate_tool_structure(tool, index, order) ==
    LET tool_name == ToolLabel(tool, index)
        missing_fields == REQUIRED_TOOL_FIELDS \ Keys(tool)
        missing == [i \in DOMAIN IterSet(missing_fields, order) |->
                      Err("missing_field", tool_name,
                          IterSet(missing_fields, order)[i], "", <<>>)]
        disallowed_fields == Keys(tool) \ ALLOWED_TOOL_FIELDS
        disallowed == [i \in DOMAIN SortedKeys(disallowed_fields) |->
                         Err("disallowed_field", tool_name,
                             SortedKeys(disallowed_fields)[i], "", <<>>)]
        tool_type == Get(tool, "type", None)
        strings == Concat([i \in 1..4 |->
                             FieldStringErrors(tool, tool_name, order[i])])
    IN  IF Truthy(tool_type) /\ ~Hashable(tool_type)
        THEN Raised("TypeError")    \* `tool_type not in VALID_TOOL_TYPES`
        ELSE Returned(
               missing \o disallowed
               \o (IF Truthy(tool_type)
                      /\ ~(IsStr(tool_type) /\ tool_type.s \in VALID_TOOL_TYPES)
                   THEN <<Err("invalid_type", tool_name, "", "", tool_type.s)>>
                   ELSE <<>>)
               \o strings)

-----------------------------------------------------------------------------
(* validate_tool_names_unique *)

\* The loop of lines 238-244 from position i on, with the names seen so far.
RECURSIVE UniqueLoop(_, _, _, _)
UniqueLoop(tools, i, seen_names, errors) ==
    IF i > Len(tools) THEN Returned(errors)
    ELSE IF ~IsDict(tools[i]) THEN Raised("AttributeError")   \* tool.get
    ELSE LET name == Get(tools[i], "name", None)
         IN  IF ~Truthy(name) THEN UniqueLoop(tools, i + 1, seen_names, errors)
             ELSE IF ~Hashable(name) THEN Raised("TypeError")  \* name in seen_names
             ELSE IF name \in seen_names
                  THEN UniqueLoop(tools, i + 1, seen_names,
                           Append(errors, Err("duplicate", name.s, "", "", <<>>)))
             ELSE UniqueLoop(tools, i + 1, seen_names \cup {name}, errors)

\* The elements of seq without their repeats.
RECURSIVE FirstOccurrences(_, _)
FirstOccurrences(seq, seen) ==
    IF seq = <<>> THEN <<>>
    ELSE IF Head(seq) \in seen THEN FirstOccurrences(Tail(seq), seen)
    ELSE <<Head(seq)>> \o FirstOccurrences(Tail(seq), seen \cup {Head(seq)})

\* Mutant: a name that repeats is reported once, however often it repeats.
validate_tool_names_unique_once(tools) ==
    LET r == UniqueLoop(tools, 1, {}, <<>>)
    IN  IF r.exc # "" THEN r ELSE Returned(FirstOccurrences(r.errors, {}))

validate_tool_names_unique(tools) == UniqueLoop(tools, 1, {}, <<>>)

-----------------------------------------------------------------------------
(* validate_categories *)

\* Lines 163-172: the loop over the tools, from position i on.  acc holds
\* the errors and the referenced categories collected so far.
RECURSIVE ReferencedLoop(_, _, _)
ReferencedLoop(tools, i, acc) ==
    IF i > Len(tools) THEN acc
    ELSE IF ~IsDict(tools[i])
         THEN [exc |-> "AttributeError", errors |-> <<>>, referenced |-> {}]
    ELSE LET category == Get(tools[i], "category", None)
         IN  IF ~Truthy(category) THEN ReferencedLoop(tools, i + 1, acc)
             ELSE IF ~IsStr(category)
                  THEN ReferencedLoop(tools, i + 1,
                         [acc EXCEPT !.errors = Append(@,
                            Err("not_string", ToolLabel(tools[i], i - 1),
                                "category", category.ty, <<>>))])
             ELSE ReferencedLoop(tools, i + 1,
                         [acc EXCEPT !.referenced = @ \cup {category.s}])

\* categories.keys() as a set.
DefinedCategories(categories) == {categories[i].key : i \in DOMAIN categories}

\* Mutant: the unused categories are reported before the missing ones.
validate_categories_unused_first(tools, categories) ==
    LET loop == ReferencedLoop(tools, 1,
                    [exc |-> "", errors |-> <<>>, referenced |-> {}])
        defined_categories == DefinedCategories(categories)
        missing_categories == SortedStrings(loop.referenced \ defined_categories)
        unused_categories == SortedStrings(defined_categories \ loop.referenced)
    IN  IF loop.exc # "" THEN Raised(loop.exc)
        ELSE Returned(
               loop.errors
               \o [i \in DOMAIN unused_categories |->
                     Err("cat_unused", unused_categories[i], "", "", <<>>)]
               \o [i \in DOMAIN missing_categories |->
                     Err("cat_undefined", missing_categories[i], "", "", <<>>)])

\* Mutant: only the referenced-but-undefined direction is checked.
validate_categories_one_direction(tools, categories) ==
    LET loop == ReferencedLoop(tools, 1,
                    [exc |-> "", errors |-> <<>>, referenced |-> {}])
        missing_categories ==
            SortedStrings(loop.referenced \ DefinedCategories(categories))
    IN  IF loop.exc # "" THEN Raised(loop.exc)
        ELSE Returned(
               loop.errors
               \o [i \in DOMAIN missing_categories |->
                     Err("cat_undefined", missing_categories[i], "", "", <<>>)])

validate_categories(tools, categories) ==
    LET loop == ReferencedLoop(tools, 1,
                    [exc |-> "", errors |-> <<>>, referenced |-> {}])
        referenced_categories == loop.referenced
        defined_categories == DefinedCategories(categories)
        missing_categories ==
            SortedStrings(referenced_categories \ defined_categories)
        unused_categories ==
            SortedStrings(defined_categories \ referenced_categories)
    IN  IF loop.exc # "" THEN Raised(loop.exc)
        ELSE Returned(
               loop.errors
               \o [i \in DOMAIN missing_categories |->
                     Err("cat_undefined", missing_categories[i], "", "", <<>>)]
               \o [i \in DOMAIN unused_categories |->
                     Err("cat_unused", unused_categories[i], "", "", <<>>)])

-----------------------------------------------------------------------------
(* validate_category_structure *)

\* Lines 210-228: the string checks of `name` or `description`.
CategoryStringErrors(category_key, category_data, f) ==
    LET value == Get(category_data, f, None)
    IN  IF value = None THEN <<>>
        ELSE IF ~IsStr(value)
             THEN <<Err("cat_not_string", category_key, f, value.ty, <<>>)>>
        ELSE IF Strip(value.s) = <<>>
             THEN <<Err("cat_empty", category_key, f, "", <<>>)>>
        ELSE <<>>

\* The body of the loop of lines 195-228 for one categories.items() pair.
CategoryErrors(category_key, category_data) ==
    IF ~IsDict(category_data)
    THEN <<Err("cat_not_object", category_key, "", category_data.ty, <<>>)>>
    ELSE (IF "name" \notin Keys(category_data)
          THEN <<Err("cat_missing_field", category_key, "name", "", <<>>)>>
          ELSE <<>>)
         \o (IF "description" \notin Keys(category_data)
             THEN <<Err("cat_missing_field", category_key, "description", "", <<>>)>>
             ELSE <<>>)
         \o CategoryStringErrors(category_key, category_data, "name")
         \o CategoryStringErrors(category_key, category_data, "description")

validate_category_structure(categories) ==
    Concat([i \in DOMAIN categories |->
              CategoryErrors(categories[i].key, categories[i].value)])

-----------------------------------------------------------------------------
(* title_to_slug and get_filesystem_tools *)

\* re.sub(r"[^a-zA-Z0-9]+", "-", s): each maximal run of other characters
\* becomes one hyphen.  in_run: the previous character was replaced.
RECURSIVE SubNonAlnum(_, _)
SubNonAlnum(s, in_run) ==
    IF s = <<>> THEN <<>>
    ELSE IF IsAlnum(Head(s)) THEN <<Head(s)>> \o SubNonAlnum(Tail(s), FALSE)
    ELSE IF in_run THEN SubNonAlnum(Tail(s), TRUE)
    ELSE <<"-">> \o SubNonAlnum(Tail(s), TRUE)

\* str.strip("-")
RECURSIVE StripHyphens(_)
StripHyphens(s) ==
    IF s # <<>> /\ Head(s) = "-" THEN StripHyphens(Tail(s))
    ELSE IF s # <<>> /\ s[Len(s)] = "-" THEN StripHyphens(SubSeq(s, 1, Len(s) - 1))
    ELSE s

\* Mutant: the leading and trailing hyphens are kept.
title_to_slug_no_strip(title) == SubNonAlnum(Lower(title), FALSE)

title_to_slug(title) == StripHyphens(SubNonAlnum(Lower(title), FALSE))

\* pathlib: the index of the dot that starts the suffix of a file name, 0
\* when the name has no suffix (no dot, a leading dot only, a trailing dot).
SuffixDot(name) ==
    LET dots == {i \in DOMAIN name : name[i] = "."}
        last == IF dots = {} THEN 0 ELSE CHOOSE i \in dots : \A j \in dots : j <= i
    IN  IF 1 < last /\ last < Len(name) THEN last ELSE 0

PathSuffix(name) ==
    IF SuffixDot(name) = 0 THEN <<>> ELSE SubSeq(name, SuffixDot(name), Len(name))

PathStem(name) ==
    IF SuffixDot(name) = 0 THEN name ELSE SubSeq(name, 1, SuffixDot(name) - 1)

\* Mutant: a name that is already in the dict keeps its type.
DictSet_keep_first(dict, name, type) ==
    IF \E i \in DOMAIN dict : dict[i].name = name
    THEN dict
    ELSE Append(dict, [name |-> name, type |-> type])

\* filesystem_tools[name] = type on an insertion-ordered dict: an existing
\* key keeps its position and takes the new value.
DictSet(dict, name, type) ==
    IF \E i \in DOMAIN dict : dict[i].name = name
    THEN [i \in DOMAIN dict |->
            IF dict[i].name = name THEN [name |-> name, type |-> type] ELSE dict[i]]
    ELSE Append(dict, [name |-> name, type |-> type])

Skill == <<"s", "k", "i", "l", "l">>
Command == <<"c", "o", "m", "m", "a", "n", "d">>
Agent == <<"a", "g", "e", "n", "t">>
Gem == <<"g", "e", "m">>

\* Lines 49-54: the skills directory.
RECURSIVE ScanSkills(_, _)
ScanSkills(items, dict) ==
    IF items = <<>> THEN dict
    ELSE ScanSkills(Tail(items),
           IF Head(items).is_dir THEN DictSet(dict, Head(items).name, Skill)
           ELSE dict)

\* Lines 56-74: the commands or the agents directory.
RECURSIVE ScanMarkdown(_, _, _)
ScanMarkdown(items, type, dict) ==
    IF items = <<>> THEN dict
    ELSE ScanMarkdown(Tail(items), type,
           IF /\ ~Head(items).is_dir
              /\ PathSuffix(Head(items).name) = <<".", "m", "d">>
              /\ Lower(Head(items).name) # <<"r", "e", "a", "d", "m", "e", ".", "m", "d">>
           THEN DictSet(dict, PathStem(Head(items).name), type)
           ELSE dict)

\* Lines 92-96: the entries of gems.yaml.
RECURSIVE ScanGems(_, _)
ScanGems(gems, dict) ==
    IF gems = <<>> THEN dict
    ELSE ScanGems(Tail(gems),
           IF Head(gems).has_title
           THEN DictSet(dict, title_to_slug(Head(gems).title), Gem)
           ELSE dict)

\* A directory of the tree is [exists, items]; gems.yaml is [exists,
\* parses, gems]; yaml says whether PyYAML could be imported.
get_filesystem_tools(dir) ==
    LET skills == IF dir.skills.exists THEN ScanSkills(dir.skills.items, <<>>)
                  ELSE <<>>
        commands == IF dir.commands.exists
                    THEN ScanMarkdown(dir.commands.items, Command, skills)
                    ELSE skills
        agents == IF dir.agents.exists
                  THEN ScanMarkdown(dir.agents.items, Agent, commands)
                  ELSE commands
    IN  IF dir.gems.exists /\ dir.yaml /\ dir.gems.parses
        THEN ScanGems(dir.gems.gems, agents)
        ELSE agents

-----------------------------------------------------------------------------
(* validate_filesystem_tools_in_json *)

\* Mutant: the comprehension maps each tool's type to its name.
RECURSIVE JsonToolsLoop_swapped(_, _, _)
JsonToolsLoop_swapped(tools, i, json_tools) ==
    IF i > Len(tools) THEN [exc |-> "", dict |-> json_tools]
    ELSE IF ~IsDict(tools[i]) THEN [exc |-> "AttributeError", dict |-> <<>>]
    ELSE LET name == Get(tools[i], "name", None)
             type == Get(tools[i], "type", None)
         IN  IF ~Hashable(type) THEN [exc |-> "TypeError", dict |-> <<>>]
             ELSE JsonToolsLoop_swapped(tools, i + 1,
                    [k \in DOMAIN json_tools \cup {type} |->
                       IF k = type THEN name ELSE json_tools[k]])

\* Lines 255-257: the dict comprehension {tool.get("name"): tool.get("type")}
\* from position i on; a later tool of the same name replaces the earlier.
RECURSIVE JsonToolsLoop(_, _, _)
JsonToolsLoop(tools, i, json_tools) ==
    IF i > Len(tools) THEN [exc |-> "", dict |-> json_tools]
    ELSE IF ~IsDict(tools[i]) THEN [exc |-> "AttributeError", dict |-> <<>>]
    ELSE LET name == Get(tools[i], "name", None)
             type == Get(tools[i], "type", None)
         IN  IF ~Hashable(name) THEN [exc |-> "TypeError", dict |-> <<>>]
             ELSE JsonToolsLoop(tools, i + 1,
                    [k \in DOMAIN json_tools \cup {name} |->
                       IF k = name THEN type ELSE json_tools[k]])

\* Lines 260-268: the check of one filesystem tool.
FilesystemToolErrors(entry, json_tools) ==
    IF Str(entry.name) \notin DOMAIN json_tools
    THEN <<Err("fs_missing", entry.name, "", "", entry.type)>>
    ELSE IF json_tools[Str(entry.name)] # Str(entry.type)
         THEN <<Err("fs_mismatch", entry.name, "", "",
                    entry.type \o <<",">> \o json_tools[Str(entry.name)].s)>>
    ELSE <<>>

\* Mutant: the reverse direction is checked too, a catalog entry whose name
\* is not in the filesystem view being reported as missing.
validate_filesystem_tools_in_json_both_directions(data, dir) ==
    LET filesystem_tools == get_filesystem_tools(dir)
        json_tools == JsonToolsLoop(data.tools, 1, <<>>)
        reverse == SelectSeq(data.tools,
                     LAMBDA t : \A i \in DOMAIN filesystem_tools :
                                   Str(filesystem_tools[i].name) # Get(t, "name", None))
    IN  IF json_tools.exc # "" THEN Raised(json_tools.exc)
        ELSE Returned(Concat([i \in DOMAIN filesystem_tools |->
                        FilesystemToolErrors(filesystem_tools[i], json_tools.dict)])
                      \o [i \in DOMAIN reverse |->
                            Err("fs_missing", Get(reverse[i], "name", None).s,
                                "", "", <<>>)])

validate_filesystem_tools_in_json(data, dir) ==
    LET filesystem_tools == get_filesystem_tools(dir)
        json_tools == JsonToolsLoop(data.tools, 1, <<>>)
    IN  IF json_tools.exc # "" THEN Raised(json_tools.exc)
        ELSE Returned(Concat([i \in DOMAIN filesystem_tools |->
                        FilesystemToolErrors(filesystem_tools[i], json_tools.dict)]))

-----------------------------------------------------------------------------
(* validate_tools_json *)

\* Lines 298-304: the per-tool loop from position i on.
RECURSIVE ToolsLoop(_, _, _, _)
ToolsLoop(tools, i, order, errors) ==
    IF i > Len(tools) THEN Returned(errors)
    ELSE IF ~IsDict(tools[i])
         THEN ToolsLoop(tools, i + 1, order,
                Append(errors,
                       Err("tool_not_object", IntStr(i - 1), "", tools[i].ty, <<>>)))
    ELSE LET r == validate_tool_structure(tools[i], i - 1, order)
         IN  IF r.exc # "" THEN r
             ELSE ToolsLoop(tools, i + 1, order, errors \o r.errors)

\* errors.extend(call): an exception of the call ends the function.
Extend(acc, call) ==
    IF acc.exc # "" THEN acc
    ELSE IF call.exc # "" THEN call
    ELSE Returned(acc.errors \o call.errors)

\* The checks of lines 297-315, after the prerequisites.
RunChecks(data, dir, order) ==
    LET per_tool == ToolsLoop(data.tools, 1, order, <<>>)
        unique == Extend(per_tool, validate_tool_names_unique(data.tools))
        structure ==
            Extend(unique, Returned(validate_category_structure(data.categories)))
        closure ==
            Extend(structure, validate_categories(data.tools, data.categories))
    IN  IF dir.given /\ dir.exists
        THEN Extend(closure, validate_filesystem_tools_in_json(data, dir))
        ELSE closure

\* Mutant: a missing `categories` key is recorded and the checks go on.
validate_tools_json_no_abort(data, dir, order) ==
    IF ~data.has_tools
    THEN Returned(<<Err("top_missing", <<>>, "tools", "", <<>>)>>)
    ELSE IF data.tools_ty # "list"
    THEN Returned(<<Err("top_type", <<>>, "tools", "", <<>>)>>)
    ELSE IF ~data.has_categories
    THEN Extend(Returned(<<Err("top_missing", <<>>, "categories", "", <<>>)>>),
                RunChecks(data, dir, order))
    ELSE IF data.categories_ty # "dict"
    THEN Returned(<<Err("top_type", <<>>, "categories", "", <<>>)>>)
    ELSE RunChecks(data, dir, order)

validate_tools_json(data, dir, order) ==
    IF ~data.has_tools
    THEN Returned(<<Err("top_missing", <<>>, "tools", "", <<>>)>>)
    ELSE IF ~data.has_categories
    THEN Returned(<<Err("top_missing", <<>>, "categories", "", <<>>)>>)
    ELSE IF data.tools_ty # "list"
    THEN Returned(<<Err("top_type", <<>>, "tools", "", <<>>)>>)
    ELSE IF data.categories_ty # "dict"
    THEN Returned(<<Err("top_type", <<>>, "categories", "", <<>>)>>)
    ELSE RunChecks(data, dir, order)

-----------------------------------------------------------------------------
(* build-website.py *)

\* re.sub(r"[^\w\s-]", "", s): characters other than word characters,
\* whitespace and hyphens are deleted.
DropPunctuation(s) ==
    SelectSeq(s, LAMBDA ch : IsAlnum(ch) \/ ch = "_" \/ IsSpace(ch) \/ ch = "-")

\* re.sub(r"[-\s]+", "-", s): each maximal run of hyphens and whitespace
\* becomes one hyphen.
RECURSIVE SubHyphenSpace(_, _)
SubHyphenSpace(s, in_run) ==
    IF s = <<>> THEN <<>>
    ELSE IF ~(Head(s) = "-" \/ IsSpace(Head(s)))
         THEN <<Head(s)>> \o SubHyphenSpace(Tail(s), FALSE)
    ELSE IF in_run THEN SubHyphenSpace(Tail(s), TRUE)
    ELSE <<"-">> \o SubHyphenSpace(Tail(s), TRUE)

title_to_kebab_case(title) ==
    StripHyphens(SubHyphenSpace(DropPunctuation(Lower(title)), FALSE))

\* Lines 193-197: the first gem whose title matches gives the link.
RECURSIVE GemLink(_, _)
GemLink(gems, tool_name) ==
    IF gems = <<>> THEN <<>>
    ELSE LET gem_title == IF Head(gems).has_title THEN Head(gems).title ELSE <<>>
         IN  IF gem_title # <<>> /\ Str(title_to_kebab_case(gem_title)) = tool_name
             THEN Head(gems).link
             ELSE GemLink(Tail(gems), tool_name)

\* The path as the list of its pieces.
get_tool_file_path(tool) ==
    LET tool_type == tool.d["type"]
        tool_name == tool.d["name"]
    IN  IF tool_type = Str(Skill)
        THEN <<"helpers/skills/">> \o tool_name.s \o <<"/SKILL.md">>
        ELSE IF tool_type = Str(Command)
        THEN <<"helpers/commands/">> \o tool_name.s \o <<".md">>
        ELSE IF tool_type = Str(Agent)
        THEN <<"helpers/agents/">> \o tool_name.s \o <<".md">>
        ELSE <<>>

\* The base fields and the gem link; the fields read from an asset file's
\* front matter are file contents the model does not hold.
get_tool_metadata(tool, dir) ==
    [name |-> tool.d["name"],
     description |-> tool.d["description"],
     category |-> tool.d["category"],
     file_path |-> get_tool_file_path(tool),
     link |-> IF tool.d["type"] = Str(Gem) /\ dir.exists /\ dir.gems.exists
                 /\ dir.gems.parses
              THEN GemLink(dir.gems.gems, tool.d["name"])
              ELSE <<>>]

\* The exception get_tool_metadata raises, "" for none: tool["name"] and
\* the other subscripts are a KeyError on a missing key, and
\* base_path / "helpers" / "skills" / tool_name is a TypeError unless the
\* name is a string.
MetadataRaises(tool) ==
    IF ~({"name", "description", "category", "type"} \subseteq Keys(tool))
    THEN "KeyError"
    ELSE IF tool.d["type"] = Str(Skill) /\ ~IsStr(tool.d["name"]) THEN "TypeError"
    ELSE ""

\* Mutant: only the keys the output arrays are chosen by are required.
SkipsTool_type_only(tool) == ~IsDict(tool) \/ "type" \notin Keys(tool)

\* Lines 229-237: the entries the build warns about and leaves out.
SkipsTool(tool) ==
    \/ ~IsDict(tool)
    \/ {"name", "type", "description", "category"} \ Keys(tool) # {}

NoWebsite ==
    [built |-> FALSE, exc |-> "", skills |-> <<>>, commands |-> <<>>,
     agents |-> <<>>, gemini |-> <<>>]

\* Mutant: every entry is put at the front of its array.
RECURSIVE WebsiteLoop_prepend(_, _, _, _)
WebsiteLoop_prepend(tools, i, dir, data) ==
    IF i > Len(tools) THEN data
    ELSE LET tool == tools[i]
         IN  IF SkipsTool(tool) THEN WebsiteLoop_prepend(tools, i + 1, dir, data)
             ELSE IF MetadataRaises(tool) # ""
                  THEN [NoWebsite EXCEPT !.built = TRUE, !.exc = MetadataRaises(tool)]
             ELSE LET tool_metadata == get_tool_metadata(tool, dir)
                      tool_type == tool.d["type"]
                  IN  WebsiteLoop_prepend(tools, i + 1, dir,
                        IF tool_type = Str(Skill)
                        THEN [data EXCEPT !.skills = <<tool_metadata>> \o @]
                        ELSE IF tool_type = Str(Command)
                        THEN [data EXCEPT !.commands = <<tool_metadata>> \o @]
                        ELSE IF tool_type = Str(Agent)
                        THEN [data EXCEPT !.agents = <<tool_metadata>> \o @]
                        ELSE IF tool_type = Str(Gem)
                        THEN [data EXCEPT !.gemini = <<tool_metadata>> \o @]
                        ELSE data)

\* Lines 227-249: the loop over the tools from position i on.
RECURSIVE WebsiteLoop(_, _, _, _)
WebsiteLoop(tools, i, dir, data) ==
    IF i > Len(tools) THEN data
    ELSE LET tool == tools[i]
         IN  IF SkipsTool(tool) THEN WebsiteLoop(tools, i + 1, dir, data)
             ELSE IF MetadataRaises(tool) # ""
                  THEN [NoWebsite EXCEPT !.built = TRUE, !.exc = MetadataRaises(tool)]
             ELSE LET tool_metadata == get_tool_metadata(tool, dir)
                      tool_type == tool.d["type"]
                  IN  WebsiteLoop(tools, i + 1, dir,
                        IF tool_type = Str(Skill)
                        THEN [data EXCEPT !.skills = Append(@, tool_metadata)]
                        ELSE IF tool_type = Str(Command)
                        THEN [data EXCEPT !.commands = Append(@, tool_metadata)]
                        ELSE IF tool_type = Str(Agent)
                        THEN [data EXCEPT !.agents = Append(@, tool_metadata)]
                        ELSE IF tool_type = Str(Gem)
                        THEN [data EXCEPT !.gemini = Append(@, tool_metadata)]
                        ELSE data)

build_website_data(data, dir) ==
    IF ~data.has_categories \/ ~data.has_tools
    THEN [NoWebsite EXCEPT !.built = TRUE, !.exc = "KeyError"]
    ELSE IF data.tools_ty \in {"NoneType", "int"}
    THEN [NoWebsite EXCEPT !.built = TRUE, !.exc = "TypeError"]
    ELSE WebsiteLoop(data.tools, 1, dir, [NoWebsite EXCEPT !.built = TRUE])

-----------------------------------------------------------------------------
(* update_claude_settings.py *)

\* `key in plugin`: a TypeError on a number or null, key membership on an
\* object, element membership on a list (the lists of the model hold no
\* element equal to a key).
ContainsRaises(plugin) == plugin.ty \in {"int", "NoneType", "bool"}
Contains(plugin, key) == IsDict(plugin) /\ key \in Keys(plugin)

\* f"{plugin['name']} plugin"
DefaultDescription(name) == Str(name.s \o <<" ", "p", "l", "u", "g", "i", "n">>)

\* Lines 79-101: the loop over the entries from position i on.
RECURSIVE PluginsLoop(_, _, _)
PluginsLoop(plugins, i, external_plugins) ==
    IF i > Len(plugins) THEN [exc |-> "", plugins |-> external_plugins]
    ELSE LET plugin == plugins[i]
         IN  IF ContainsRaises(plugin) THEN [exc |-> "TypeError", plugins |-> <<>>]
             ELSE IF ~Contains(plugin, "name")
                  THEN PluginsLoop(plugins, i + 1, external_plugins)
             ELSE IF ~Contains(plugin, "source")
                  THEN PluginsLoop(plugins, i + 1, external_plugins)
             ELSE PluginsLoop(plugins, i + 1,
                    Append(external_plugins,
                           [name |-> plugin.d["name"],
                            description |->
                                Get(plugin, "description",
                                    DefaultDescription(plugin.d["name"])),
                            source |-> plugin.d["source"]]))

\* The file is [exists, parses, has_plugins, plugins_ty, plugins].
load_external_plugins(config) ==
    IF ~config.exists THEN [exc |-> "", plugins |-> <<>>]
    ELSE IF ~config.parses THEN [exc |-> "", plugins |-> <<>>]
    ELSE IF ~config.has_plugins THEN [exc |-> "", plugins |-> <<>>]
    ELSE IF config.plugins_ty # "list"
         THEN [exc |-> "TypeError", plugins |-> <<>>]  \* `for plugin in None`
    ELSE PluginsLoop(config.plugins, 1, <<>>)

OdhAiHelpers ==
    <<"o", "d", "h", "-", "a", "i", "-", "h", "e", "l", "p", "e", "r", "s">>

BundledDescription ==
    <<"A", "I", " ", "a", "u", "t", "o", "m", "a", "t", "i", "o", "n", " ",
      "t", "o", "o", "l", "s", ",", " ", "p", "l", "u", "g", "i", "n", "s",
      ",", " ", "a", "n", "d", " ", "a", "s", "s", "i", "s", "t", "a", "n",
      "t", "s", " ", "f", "o", "r", " ", "e", "n", "h", "a", "n", "c", "e",
      "d", " ", "p", "r", "o", "d", "u", "c", "t", "i", "v", "i", "t", "y">>

\* Lines 139-146: the one entry for all the helpers.
BundledPlugin ==
    [name |-> Str(OdhAiHelpers),
     source |-> Str(<<".", "/", "h", "e", "l", "p", "e", "r", "s">>),
     description |-> Str(BundledDescription),
     strict |-> FALSE]

generate_marketplace_json(tools_config, external_plugins) ==
    [name |-> Str(OdhAiHelpers),
     owner |-> [name |-> Str(<<"O", "D", "H">>)],
     plugins |-> Append(external_plugins, BundledPlugin)]

NoMarketplace == [built |-> FALSE, exc |-> "", exit |-> 0, plugins |-> <<>>]

\* main(): exit 1 when `tools` is no list, the count of the tools by type
\* (tool.get on every element), then the external plugins and the two
\* files.
update_claude_settings(tools_config, config) ==
    LET tools == tools_config.tools
        external_plugins == load_external_plugins(config)
    IN  IF ~tools_config.has_tools \/ tools_config.tools_ty # "list"
        THEN [NoMarketplace EXCEPT !.built = TRUE, !.exit = 1]
        ELSE IF \E i \in DOMAIN tools : ~IsDict(tools[i])
        THEN [NoMarketplace EXCEPT !.built = TRUE, !.exc = "AttributeError"]
        ELSE IF external_plugins.exc # ""
        THEN [NoMarketplace EXCEPT !.built = TRUE, !.exc = external_plugins.exc]
        ELSE [NoMarketplace EXCEPT
                !.built = TRUE,
                !.plugins = generate_marketplace_json(
                                tools_config, external_plugins.plugins).plugins]

-----------------------------------------------------------------------------
(* The documents and asset trees the runs are checked on *)

A == <<"a">>
B == <<"b">>
C == <<"c">>
D == <<"d">>
X == <<"x">>
Blank == <<" ">>
Empty == <<>>

\* Marks a key the object does not have.
Absent == [ty |-> "absent", s |-> <<>>]

\* The tool object with the given values; a key whose value is Absent is
\* left out, and extra adds a fifth key.
MkTool(name, type, description, category, extra) ==
    LET given == [k \in REQUIRED_TOOL_FIELDS \cup {"extra"} |->
                    CASE k = "name" -> name
                      [] k = "type" -> type
                      [] k = "description" -> description
                      [] k = "category" -> category
                      [] OTHER -> IF extra THEN Str(X) ELSE Absent]
    IN  Obj([k \in {f \in DOMAIN given : given[f] # Absent} |-> given[k]])

Tool(name, type, category) == MkTool(Str(name), Str(type), Str(X), category, FALSE)

\* A category entry {name, description}.
MkCategory(key, name, description) ==
    LET given == [k \in {"name", "description"} |->
                    IF k = "name" THEN name ELSE description]
    IN  [key |-> key,
         value |-> Obj([k \in {f \in DOMAIN given : given[f] # Absent} |-> given[k]])]

Category(key) == MkCategory(key, Str(A), Str(X))

Manifest(tools, categories) ==
    [has_tools |-> TRUE, has_categories |-> TRUE, tools_ty |-> "list",
     tools |-> tools, categories_ty |-> "dict", categories |-> categories]

NoDirectory == [exists |-> FALSE, items |-> <<>>]
Directory(items) == [exists |-> TRUE, items |-> items]
Dir(name) == [name |-> name, is_dir |-> TRUE]
File(name) == [name |-> name, is_dir |-> FALSE]
NoGems == [exists |-> FALSE, parses |-> FALSE, gems |-> <<>>]
Gems(gems) == [exists |-> TRUE, parses |-> TRUE, gems |-> gems]
GemEntry(title) == [has_title |-> TRUE, title |-> title, link |-> X]

Tree(skills, commands, agents, gems) ==
    [given |-> TRUE, exists |-> TRUE, yaml |-> TRUE, skills |-> skills,
     commands |-> commands, agents |-> agents, gems |-> gems]

\* validate_tools_json called without a helpers directory.
NoHelpers ==
    [given |-> FALSE, exists |-> FALSE, yaml |-> TRUE, skills |-> NoDirectory,
     commands |-> NoDirectory, agents |-> NoDirectory, gems |-> NoGems]

\* Sequences over S of length lo..hi.
SeqsOf(S, lo, hi) == UNION {[1..n -> S] : n \in lo..hi}

Md(stem) == stem \o <<".", "m", "d">>

\* One tool whose four fields take every combination of a present, absent,
\* blank, null or non-string value.
NameValues == {Str(A), Str(Empty), Str(Blank), None, Int5, ListX, ListEmpty, Absent}
TypeValues == {Str(Skill), Str(X), Str(Empty), None, Int5, ListX, Absent}
DescriptionValues == {Str(X), Str(Blank), None, BoolTrue, Absent}
CategoryValues == {Str(C), Str(Empty), None, Int5, ListX, Absent}

SchemaManifests ==
    {Manifest(<<MkTool(n, t, d, c, e)>>, <<Category(C)>>) :
        n \in NameValues, t \in TypeValues, d \in DescriptionValues,
        c \in CategoryValues, e \in BOOLEAN}

\* Lists of tools in which some elements are no objects.
MixedElements ==
    {NonObj(Str(A)), NonObj(Int5), Tool(A, Skill, Str(C)), Tool(B, X, Str(D)),
     MkTool(Str(A), Str(Skill), Absent, Str(C), FALSE)}

MixedManifests ==
    {Manifest(ts, <<Category(C)>>) : ts \in SeqsOf(MixedElements, 1, MaxTools)}

\* Catalogs of well-shaped tools whose names, types and categories repeat
\* and differ.
CatalogTools ==
    {Tool(A, Skill, Str(C)), Tool(A, Command, Str(C)), Tool(B, Gem, Str(D)),
     Tool(B, Command, Int5), Tool(Empty, Skill, Str(Empty))}

CategoryMaps ==
    {<<>>, <<Category(C)>>, <<Category(D), Category(C)>>,
     <<[key |-> Empty, value |-> NonObj(Int5)], MkCategory(C, Absent, Str(Blank))>>}

Trees ==
    {NoHelpers,
     [Tree(NoDirectory, NoDirectory, NoDirectory, NoGems) EXCEPT !.exists = FALSE],
     Tree(Directory(<<Dir(B), Dir(A)>>), Directory(<<File(Md(A))>>), NoDirectory,
          NoGems),
     Tree(Directory(<<Dir(A), File(B)>>), NoDirectory,
          Directory(<<File(<<"R", "E", "A", "D", "M", "E">> \o Md(Empty))>>),
          Gems(<<GemEntry(<<"B", "!">>)>>)),
     Tree(Directory(<<Dir(A)>>), NoDirectory, NoDirectory, NoGems)}

CatalogManifests ==
    {Manifest(ts, cs) : ts \in SeqsOf(CatalogTools, 0, MaxTools), cs \in CategoryMaps}

\* Documents lacking a top-level key or holding the wrong container.
TopTools == {<<>>, <<Tool(A, Skill, Str(C))>>, <<NonObj(Int5), Tool(A, X, Str(D))>>}

TopManifests ==
    {[has_tools |-> ht, has_categories |-> hc, tools_ty |-> tt,
      tools |-> IF ht /\ tt = "list" THEN ts ELSE <<>>,
      categories_ty |-> ct,
      categories |-> IF hc /\ ct = "dict" THEN cs ELSE <<>>] :
        ht \in BOOLEAN, hc \in BOOLEAN, tt \in {"list", "dict", "str", "NoneType"},
        ct \in {"dict", "list", "NoneType"}, ts \in TopTools,
        cs \in {<<>>, <<Category(C)>>}}

-----------------------------------------------------------------------------
(* The state machine: the tools are run on the files as they are *)

\* Tool lists for the website build: complete tools of each type, a tool
\* of unknown type, a tool without a description and a non-object.
WebsiteTools ==
    {Tool(A, Skill, Str(C)), Tool(B, Command, Str(C)), Tool(A, Agent, Str(C)),
     Tool(B, Gem, Str(C)), Tool(A, X, Str(C)),
     MkTool(Str(A), Str(Skill), Absent, Str(C), FALSE), NonObj(Str(A))}

WebsiteManifests ==
    {Manifest(ts, <<Category(C)>>) : ts \in SeqsOf(WebsiteTools, 0, MaxTools)}

\* Gem titles: every string of up to MaxLen characters over letters of both
\* cases, a digit, whitespace, a hyphen, an underscore and punctuation, and
\* the two titles the documentation gives.
TitleChars == {"A", "b", "1", " ", "-", "_", "!", "."}

MyCoolGem == <<"M", "y", " ", "C", "o", "o", "l", " ", "G", "e", "m", "!">>
MultiSpace ==
    <<" ", " ", "m", "u", "l", "t", "i", " ", " ", " ", "s", "p", "a", "c", "e", " ">>

Titles == SeqsOf(TitleChars, 0, MaxLen) \cup {MyCoolGem, MultiSpace}

\* An asset tree whose only content is a gem registry of one titled entry.
GemTree(title) ==
    Tree(NoDirectory, NoDirectory, NoDirectory, Gems(<<GemEntry(title)>>))

\* The catalog that names the gem of that registry as the validator
\* derives its name.
GemManifest(title) ==
    Manifest(<<Tool(title_to_slug(title), Gem, Str(C))>>, <<Category(C)>>)

\* The plugin entry with the given values; a key whose value is Absent is left out.
PluginEntry(name, source, description) ==
    LET given == [k \in {"name", "source", "description"} |->
                    CASE k = "name" -> name
                      [] k = "source" -> source
                      [] OTHER -> description]
    IN  Obj([k \in {f \in DOMAIN given : given[f] # Absent} |-> given[k]])

\* The external-plugin document: the file may be missing or unreadable,
\* lack the `plugins` key or hold null there, or list entries with and
\* without `name`, `source` and `description`, and entries that are no
\* objects.
NoPluginsFile ==
    [exists |-> FALSE, parses |-> FALSE, has_plugins |-> FALSE,
     plugins_ty |-> "list", plugins |-> <<>>]

PluginsFile(plugins) ==
    [exists |-> TRUE, parses |-> TRUE, has_plugins |-> TRUE,
     plugins_ty |-> "list", plugins |-> plugins]

PluginEntries ==
    {PluginEntry(Str(A), Str(X), Absent), PluginEntry(Str(B), Str(X), Str(D)),
     PluginEntry(Absent, Str(X), Str(D)), PluginEntry(Str(A), Absent, Absent),
     NonObj(Int5), NonObj(ListX)}

PluginConfigs ==
    {NoPluginsFile,
     [PluginsFile(<<>>) EXCEPT !.parses = FALSE],
     [PluginsFile(<<>>) EXCEPT !.has_plugins = FALSE],
     [PluginsFile(<<>>) EXCEPT !.plugins_ty = "NoneType"]}
    \cup {PluginsFile(ps) : ps \in SeqsOf(PluginEntries, 0, MaxPlugins)}

MarketManifests ==
    {Manifest(<<>>, <<>>),
     Manifest(<<Tool(A, Skill, Str(C)), Tool(B, Gem, Str(C))>>, <<Category(C)>>),
     Manifest(<<Tool(A, Skill, Str(C)), NonObj(Int5)>>, <<Category(C)>>),
     [Manifest(<<>>, <<>>) EXCEPT !.tools_ty = "dict"]}

\* Asset trees for the scan: each directory missing, or holding assets
\* whose names repeat across the directories; the registry missing,
\* unparseable, or holding titles that slugify to those names and an entry
\* without a title; PyYAML importable or not.
Readme == <<"R", "E", "A", "D", "M", "E", ".", "m", "d">>

ScanTrees ==
    {[Tree(skills, commands, agents, gems) EXCEPT !.yaml = yaml] :
        skills \in {NoDirectory, Directory(<<Dir(A)>>),
                    Directory(<<Dir(B), Dir(A), File(C)>>)},
        commands \in {NoDirectory, Directory(<<File(Md(A))>>),
                      Directory(<<File(Md(A)), File(Md(B))>>),
                      Directory(<<File(Readme), Dir(Md(A)), File(B)>>)},
        agents \in {NoDirectory, Directory(<<File(Md(A))>>),
                    Directory(<<File(Md(B)), File(Md(A))>>)},
        gems \in {NoGems, Gems(<<GemEntry(<<"A">>)>>),
                  Gems(<<GemEntry(<<"B", "!">>),
                         [has_title |-> FALSE, title |-> <<>>, link |-> X]>>),
                  [Gems(<<GemEntry(<<"A">>)>>) EXCEPT !.parses = FALSE]},
        yaml \in BOOLEAN}

\* Tool lists for the partition by type: two tools of a type, tools of
\* the other types, of an unknown type and of a type that is no string, a
\* tool without a description, a non-object, and a skill whose name is a
\* number.
PartitionTools ==
    {Tool(A, Skill, Str(C)), Tool(B, Skill, Str(C)), Tool(A, Command, Str(C)),
     Tool(A, Agent, Str(C)), Tool(B, Gem, Str(C)), Tool(A, X, Str(C)),
     MkTool(Str(B), Int5, Str(X), Str(C), FALSE),
     MkTool(Str(A), Str(Skill), Absent, Str(C), FALSE), NonObj(Str(A)),
     MkTool(Int5, Str(Skill), Str(X), Str(C), FALSE)}

PartitionManifests ==
    {Manifest(ts, <<Category(C)>>) : ts \in SeqsOf(PartitionTools, 0, MaxTools)}

Start ==
    /\ pc = "loaded"
    /\ runs = 0
    /\ result = Returned(<<>>)
    /\ prev_result = Returned(<<>>)
    /\ website = NoWebsite
    /\ marketplace = NoMarketplace

InitSchema ==
    /\ tools_data \in SchemaManifests \cup MixedManifests
    /\ helpers_dir = NoHelpers
    /\ planned = MaxRuns
    /\ plugins_config = NoPluginsFile
    /\ Start

InitCatalog ==
    /\ tools_data \in CatalogManifests
    /\ helpers_dir \in Trees
    /\ planned = 1
    /\ plugins_config = NoPluginsFile
    /\ Start

InitWebsite ==
    /\ tools_data \in WebsiteManifests
    /\ helpers_dir = Tree(Directory(<<Dir(A)>>), NoDirectory, NoDirectory,
                          Gems(<<GemEntry(<<"B", "!">>)>>))
    /\ planned = 1
    /\ plugins_config = NoPluginsFile
    /\ Start

InitTitles ==
    /\ \E title \in Titles :
          /\ helpers_dir = GemTree(title)
          /\ tools_data \in {Manifest(<<>>, <<>>), GemManifest(title)}
    /\ planned = 1
    /\ plugins_config = NoPluginsFile
    /\ Start

InitMarket ==
    /\ tools_data \in MarketManifests
    /\ helpers_dir = NoHelpers
    /\ planned = 1
    /\ plugins_config \in PluginConfigs
    /\ Start

InitPartition ==
    /\ tools_data \in PartitionManifests
    /\ helpers_dir = Tree(Directory(<<Dir(A)>>), NoDirectory, NoDirectory,
                          Gems(<<GemEntry(B)>>))
    /\ planned = 1
    /\ plugins_config = NoPluginsFile
    /\ Start

InitScan ==
    /\ tools_data = Manifest(<<>>, <<>>)
    /\ helpers_dir \in ScanTrees
    /\ planned = 1
    /\ plugins_config = NoPluginsFile
    /\ Start

InitTop ==
    /\ tools_data \in TopManifests
    /\ helpers_dir \in {NoHelpers, Tree(Directory(<<Dir(A)>>), NoDirectory,
                                        NoDirectory, NoGems)}
    /\ planned = 1
    /\ plugins_config = NoPluginsFile
    /\ Start

\* validate_tools.py main(): one validator process, with the hash order of
\* that process.
RunValidator ==
    /\ runs < planned
    /\ \E order \in HashOrders :
          result' = validate_tools_json(tools_data, helpers_dir, order)
    /\ prev_result' = result
    /\ runs' = runs + 1
    /\ pc' = "validated"
    /\ UNCHANGED <<tools_data, helpers_dir, planned, website, plugins_config,
                   marketplace>>

\* build-website.py: one build of the website data.
RunBuildWebsite ==
    /\ ~website.built
    /\ website' = build_website_data(tools_data, helpers_dir)
    /\ UNCHANGED <<tools_data, helpers_dir, pc, planned, runs, result, prev_result,
                   plugins_config, marketplace>>

\* update_claude_settings.py: one build of the marketplace and settings
\* files.
RunUpdateSettings ==
    /\ ~marketplace.built
    /\ marketplace' = update_claude_settings(tools_data, plugins_config)
    /\ UNCHANGED <<tools_data, helpers_dir, pc, planned, runs, result, prev_result,
                   website, plugins_config>>

\* The validator alone, the marketplace build alone, and the validator and
\* the website build.
NextValidate == RunValidator

NextMarket == RunUpdateSettings

NextBuild == RunBuildWebsite

Next == RunValidator \/ RunBuildWebsite

SpecSchema == InitSchema /\ [][NextValidate]_vars
SpecCatalog == InitCatalog /\ [][NextValidate]_vars
SpecTop == InitTop /\ [][NextValidate]_vars
SpecScan == InitScan /\ [][NextValidate]_vars
SpecWebsite == InitWebsite /\ [][Next]_vars
SpecTitles == InitTitles /\ [][Next]_vars
SpecMarket == InitMarket /\ [][NextMarket]_vars
SpecPartition == InitPartition /\ [][NextBuild]_vars

-----------------------------------------------------------------------------
(* Properties *)

\* The prerequisites of lines 277-295 hold: both keys, a list, a mapping.
WellFormedTop(data) ==
    /\ data.has_tools
    /\ data.has_categories
    /\ data.tools_ty = "list"
    /\ data.categories_ty = "dict"

Validated == runs > 0

\* The number of positions of seq whose element satisfies Test.
CountIf(seq, Test(_)) == Cardinality({i \in DOMAIN seq : Test(seq[i])})

PerToolKinds ==
    {"tool_not_object", "missing_field", "disallowed_field", "invalid_type",
     "not_string", "empty"}
StructureKinds == {"cat_not_object", "cat_missing_field", "cat_not_string", "cat_empty"}
ClosureKinds == {"cat_undefined", "cat_unused"}
FilesystemKinds == {"fs_missing", "fs_mismatch"}

\* C1: validate_tools_json never raises on a document whose `tools` is a
\* list and whose `categories` is a mapping, whatever the elements of
\* `tools` are: it returns the list of errors.
C1_NeverRaises == (Validated /\ WellFormedTop(tools_data)) => result.exc = ""

\* C4: two runs of the validator on the same catalog and the same tree
\* return the same errors in the same order.
C4_Deterministic == runs >= 2 => result = prev_result

\* C5: when a top-level key is missing or holds the wrong container, the
\* validator returns exactly one error, a top-level one, and runs no other
\* check, however many of these defects the document has.
C5_PrerequisiteAbort ==
    (Validated /\ ~WellFormedTop(tools_data)) =>
        /\ result.exc = ""
        /\ Len(result.errors) = 1
        /\ result.errors[1].kind \in {"top_missing", "top_type"}

\* C5 witness: a validated document with two prerequisite defects at once
\* and a list of tools that would fail the per-tool checks.
C5_Witness ==
    /\ Validated
    /\ ~tools_data.has_categories
    /\ tools_data.categories_ty # "dict"
    /\ tools_data.has_tools
    /\ \E i \in DOMAIN tools_data.tools : ~IsDict(tools_data.tools[i])

\* C7: every field of a tool that is present with a non-string value has a
\* 'must be a string' error naming it, and every field present with an
\* empty or all-whitespace string has an 'empty' error naming it.
C7_FieldValuesReported ==
    (Validated /\ WellFormedTop(tools_data) /\ result.exc = "") =>
        \A i \in DOMAIN tools_data.tools :
            IsDict(tools_data.tools[i]) =>
                \A f \in REQUIRED_TOOL_FIELDS \cap Keys(tools_data.tools[i]) :
                    LET v == tools_data.tools[i].d[f]
                        label == ToolLabel(tools_data.tools[i], i - 1)
                    IN  /\ ~IsStr(v) =>
                            \E k \in DOMAIN result.errors :
                                /\ result.errors[k].kind = "not_string"
                                /\ result.errors[k].field = f
                                /\ result.errors[k].subj = label
                        /\ (IsStr(v) /\ Strip(v.s) = <<>>) =>
                            \E k \in DOMAIN result.errors :
                                /\ result.errors[k].kind = "empty"
                                /\ result.errors[k].field = f
                                /\ result.errors[k].subj = label

\* Every element of `tools` is an object whose values are scalars.
ToolsAreObjects(data) ==
    \A i \in DOMAIN data.tools :
        /\ IsDict(data.tools[i])
        /\ \A f \in Keys(data.tools[i]) : Hashable(data.tools[i].d[f])

\* The label the errors of the tool at position i carry.
LabelAt(data, i) ==
    IF IsDict(data.tools[i]) THEN ToolLabel(data.tools[i], i - 1) ELSE IntStr(i - 1)

\* Positions of the object tools that have key f with value v.
ToolsWith(data, f, v) ==
    {i \in DOMAIN data.tools :
        /\ IsDict(data.tools[i])
        /\ f \in Keys(data.tools[i])
        /\ data.tools[i].d[f] = v}

NonBlankString(v) == IsStr(v) /\ Strip(v.s) # <<>>

\* A valid catalog, as the data model defines it.
ValidTool(t) ==
    /\ IsDict(t)
    /\ Keys(t) = {"name", "type", "description", "category"}
    /\ \A f \in Keys(t) : NonBlankString(t.d[f])
    /\ t.d["type"].s \in {Skill, Command, Agent, Gem}

ValidCategory(c) ==
    /\ IsDict(c.value)
    /\ {"name", "description"} \subseteq Keys(c.value)
    /\ NonBlankString(c.value.d["name"])
    /\ NonBlankString(c.value.d["description"])

ValidCatalog(data, dir) ==
    /\ WellFormedTop(data)
    /\ \A i \in DOMAIN data.tools : ValidTool(data.tools[i])
    /\ \A i, j \in DOMAIN data.tools :
          i # j => data.tools[i].d["name"] # data.tools[j].d["name"]
    /\ \A i \in DOMAIN data.categories : ValidCategory(data.categories[i])
    /\ {data.categories[i].key : i \in DOMAIN data.categories}
          = {data.tools[i].d["category"].s : i \in DOMAIN data.tools}
    /\ (dir.given /\ dir.exists) =>
          \A k \in DOMAIN get_filesystem_tools(dir) :
              \E i \in DOMAIN data.tools :
                  /\ data.tools[i].d["name"] = Str(get_filesystem_tools(dir)[k].name)
                  /\ data.tools[i].d["type"] = Str(get_filesystem_tools(dir)[k].type)

\* C2: for every valid catalog the validator returns the empty error list.
C2_ValidCatalogPasses ==
    (Validated /\ ValidCatalog(tools_data, helpers_dir)) => result = Returned(<<>>)

\* C2 witness: a validated valid catalog of two tools checked against a
\* tree that holds both of them.
C2_Witness ==
    /\ Validated
    /\ ValidCatalog(tools_data, helpers_dir)
    /\ Len(tools_data.tools) >= 2
    /\ helpers_dir.given /\ helpers_dir.exists
    /\ Len(get_filesystem_tools(helpers_dir)) >= 2

\* C6: per filesystem tool, exactly one 'missing' error when the catalog
\* has no entry of that name, exactly one 'mismatched type' error when it
\* has the name only with other types, and no filesystem error when it has
\* a same-named, same-typed entry.
C6_FilesystemExact ==
    (/\ Validated
     /\ WellFormedTop(tools_data)
     /\ result.exc = ""
     /\ helpers_dir.given /\ helpers_dir.exists) =>
        \A k \in DOMAIN get_filesystem_tools(helpers_dir) :
            LET e == get_filesystem_tools(helpers_dir)[k]
                named == ToolsWith(tools_data, "name", Str(e.name))
                typed == named \cap ToolsWith(tools_data, "type", Str(e.type))
                missing == CountIf(result.errors,
                              LAMBDA x : x.kind = "fs_missing" /\ x.subj = e.name)
                mismatch == CountIf(result.errors,
                              LAMBDA x : x.kind = "fs_mismatch" /\ x.subj = e.name)
            IN  /\ named = {} => (missing = 1 /\ mismatch = 0)
                /\ (named # {} /\ typed = {}) => (missing = 0 /\ mismatch = 1)
                /\ typed # {} => (missing = 0 /\ mismatch = 0)

\* The values the `name` key has in the tools of the document.
NameValuesOf(data) ==
    {data.tools[i].d["name"] :
        i \in {j \in DOMAIN data.tools :
                 IsDict(data.tools[j]) /\ "name" \in Keys(data.tools[j])}}

DuplicateErrors(v) ==
    CountIf(result.errors, LAMBDA x : x.kind = "duplicate" /\ x.subj = v.s)

\* C8 as stated: N tools sharing one name value give exactly N-1
\* 'Duplicate tool name' errors for it, whatever the value.
C8_DuplicatesAnyName ==
    (Validated /\ WellFormedTop(tools_data) /\ result.exc = "") =>
        \A v \in NameValuesOf(tools_data) :
            DuplicateErrors(v) = Cardinality(ToolsWith(tools_data, "name", v)) - 1

\* C8 amended: N tools sharing one non-empty name give exactly N-1
\* 'Duplicate tool name' errors for it (none when N = 1); tools whose name
\* is the empty string are never reported as duplicates.
C8_DuplicatesNonEmptyName ==
    (Validated /\ WellFormedTop(tools_data) /\ ToolsAreObjects(tools_data)) =>
        /\ result.exc = ""
        /\ \A v \in NameValuesOf(tools_data) :
              IsStr(v) =>
                DuplicateErrors(v) =
                    IF v = Str(Empty) THEN 0
                    ELSE Cardinality(ToolsWith(tools_data, "name", v)) - 1

\* C8 witness: three tools share one non-empty name.
C8_Witness ==
    /\ Validated
    /\ result.exc = ""
    /\ \E v \in NameValuesOf(tools_data) :
          v # Str(Empty) /\ Cardinality(ToolsWith(tools_data, "name", v)) >= 3

\* The string categories the tools name, with and without the empty string.
CategoriesNamed(data) ==
    {data.tools[i].d["category"].s :
        i \in {j \in DOMAIN data.tools :
                 /\ IsDict(data.tools[j])
                 /\ "category" \in Keys(data.tools[j])
                 /\ IsStr(data.tools[j].d["category"])}}

ClosureErrors(kind, c) ==
    CountIf(result.errors, LAMBDA x : x.kind = kind /\ x.subj = c)

\* Closure of the reference set R against the defined keys: one error per
\* category on each side, none for a category that is on neither side.
ClosureExact(R) ==
    LET defined == DefinedCategories(tools_data.categories)
    IN  \A c \in R \cup defined :
            /\ ClosureErrors("cat_undefined", c) =
                   IF c \in R \ defined THEN 1 ELSE 0
            /\ ClosureErrors("cat_unused", c) =
                   IF c \in defined \ R THEN 1 ELSE 0

\* The scenario of one valid tool and no categories: one error in total.
SingleToolNoCategories ==
    /\ Len(tools_data.tools) = 1
    /\ ValidTool(tools_data.tools[1])
    /\ tools_data.categories = <<>>
    /\ ~(helpers_dir.given /\ helpers_dir.exists)

\* C9 as stated: every category a tool names and the map lacks has exactly
\* one 'referenced but not defined' error, every defined category no tool
\* names has exactly one 'defined but not used' error, and one tool naming
\* an undefined category with no categories defined gives one error.
C9_ClosureAnyCategory ==
    (Validated /\ WellFormedTop(tools_data) /\ result.exc = "") =>
        /\ ClosureExact(CategoriesNamed(tools_data))
        /\ SingleToolNoCategories => Len(result.errors) = 1

\* C9 amended: the same, a tool's category counting as a reference only
\* when it is a non-empty string.
C9_ClosureNonEmptyCategory ==
    (Validated /\ WellFormedTop(tools_data) /\ ToolsAreObjects(tools_data)) =>
        /\ result.exc = ""
        /\ ClosureExact(CategoriesNamed(tools_data) \ {Empty})
        /\ SingleToolNoCategories => Len(result.errors) = 1

\* C9 witness: an undefined category named by two tools together with a
\* defined category that no tool names.
C9_Witness ==
    /\ Validated
    /\ result.exc = ""
    /\ \E c \in CategoriesNamed(tools_data) \ {Empty} :
          /\ c \notin DefinedCategories(tools_data.categories)
          /\ Cardinality(ToolsWith(tools_data, "category", Str(c))) >= 2
    /\ DefinedCategories(tools_data.categories)
          \ CategoriesNamed(tools_data) # {}

\* The five groups of the spec's ordering, by error kind.
Group(e) ==
    CASE e.kind \in PerToolKinds -> 1
      [] e.kind = "duplicate" -> 2
      [] e.kind \in StructureKinds -> 3
      [] e.kind \in ClosureKinds -> 4
      [] e.kind \in FilesystemKinds -> 5
      [] OTHER -> 0

\* The position of a category key in the map, of a name in the filesystem
\* view (0 when it is not there).
KeyPosition(key) ==
    IF \E i \in DOMAIN tools_data.categories : tools_data.categories[i].key = key
    THEN CHOOSE i \in DOMAIN tools_data.categories :
            tools_data.categories[i].key = key
    ELSE 0

ViewPosition(name) ==
    LET view == get_filesystem_tools(helpers_dir)
    IN  IF \E i \in DOMAIN view : view[i].name = name
        THEN CHOOSE i \in DOMAIN view : view[i].name = name
        ELSE 0

\* The labels of errs follow the tools from position i on, several errors
\* to a tool.
RECURSIVE FollowsTools(_, _)
FollowsTools(errs, i) ==
    IF errs = <<>> THEN TRUE
    ELSE IF i > Len(tools_data.tools) THEN FALSE
    ELSE IF Head(errs).subj = LabelAt(tools_data, i) THEN FollowsTools(Tail(errs), i)
    ELSE FollowsTools(errs, i + 1)

\* The order inside the groups: per-tool errors in tool order, structure
\* errors in key order, missing categories sorted before unused categories
\* sorted, filesystem errors in enumeration order.
OrderedInGroups(es) ==
    /\ FollowsTools(SelectSeq(es, LAMBDA e : Group(e) = 1), 1)
    /\ \A i, j \in DOMAIN es :
          i < j =>
            /\ (Group(es[i]) = 3 /\ Group(es[j]) = 3) =>
                  KeyPosition(es[i].subj) <= KeyPosition(es[j].subj)
            /\ (Group(es[i]) = 4 /\ Group(es[j]) = 4) =>
                  \/ es[i].kind = "cat_undefined" /\ es[j].kind = "cat_unused"
                  \/ es[i].kind = es[j].kind /\ StrLess(es[i].subj, es[j].subj)
            /\ (Group(es[i]) = 5 /\ Group(es[j]) = 5) =>
                  ViewPosition(es[i].subj) < ViewPosition(es[j].subj)

\* A 'field category must be a string' error.
CategoryTypeError(e) == e.kind = "not_string" /\ e.field = "category"

\* C3 as stated: the errors come in five consecutive groups (per-tool,
\* duplicate names, category structure, category closure, filesystem),
\* ordered inside each group, and no error of a later group comes before
\* an error of an earlier group.
C3_FiveGroups ==
    (Validated /\ WellFormedTop(tools_data) /\ result.exc = "") =>
        /\ \A i, j \in DOMAIN result.errors :
              i < j => Group(result.errors[i]) <= Group(result.errors[j])
        /\ OrderedInGroups(result.errors)

\* C3 amended: the same five groups, except that the closure group starts
\* with a second copy of the 'field category must be a string' error of
\* every tool whose category is a non-string, in tool order: from some
\* position k on, the list holds those copies, then the closure errors,
\* then the filesystem errors, and before k the first three groups.
C3_FiveGroupsWithCategoryTypeErrors ==
    (Validated /\ WellFormedTop(tools_data) /\ ToolsAreObjects(tools_data)) =>
        /\ result.exc = ""
        /\ \E k \in 0..Len(result.errors) :
              LET head == SubSeq(result.errors, 1, k)
                  tail == SubSeq(result.errors, k + 1, Len(result.errors))
                  TailGroup(e) == IF CategoryTypeError(e) THEN 4 ELSE Group(e)
                  copies == SelectSeq(tail, CategoryTypeError)
              IN  /\ \A i \in DOMAIN head : Group(head[i]) \in {1, 2, 3}
                  /\ \A i, j \in DOMAIN head :
                        i < j => Group(head[i]) <= Group(head[j])
                  /\ OrderedInGroups(head)
                  /\ \A i \in DOMAIN tail : TailGroup(tail[i]) \in {4, 5}
                  /\ \A i, j \in DOMAIN tail :
                        i < j =>
                          /\ TailGroup(tail[i]) <= TailGroup(tail[j])
                          /\ CategoryTypeError(tail[j]) => CategoryTypeError(tail[i])
                  /\ copies = SelectSeq(head, CategoryTypeError)
                  /\ OrderedInGroups(SelectSeq(tail, LAMBDA e : ~CategoryTypeError(e)))

\* C3 witness: a validated document with errors of all five groups, both
\* closure kinds and a category that is no string.
C3_Witness ==
    /\ Validated
    /\ result.exc = ""
    /\ \A g \in 1..5 : \E i \in DOMAIN result.errors : Group(result.errors[i]) = g
    /\ \E i, j \in DOMAIN result.errors :
          result.errors[i].kind = "cat_undefined" /\ result.errors[j].kind = "cat_unused"
    /\ \E i, j \in DOMAIN result.errors :
          /\ i < j
          /\ result.errors[i].kind = "duplicate"
          /\ CategoryTypeError(result.errors[j])

\* The tools of the document that have every key but `description`.
LacksDescription(t) ==
    IsDict(t) /\ Keys(t) = {"name", "type", "category"}

WithDescription(data) ==
    [data EXCEPT !.tools =
        [i \in DOMAIN @ |->
            IF LacksDescription(@[i])
            THEN Obj([k \in {"name", "type", "description", "category"} |->
                        IF k = "description" THEN Str(X) ELSE @[i].d[k]])
            ELSE @[i]]]

\* One tool lacks `description` and the catalog is valid apart from that.
OneToolLacksDescription ==
    /\ WellFormedTop(tools_data)
    /\ Cardinality({i \in DOMAIN tools_data.tools :
                      LacksDescription(tools_data.tools[i])}) = 1
    /\ ValidCatalog(WithDescription(tools_data), helpers_dir)

TheToolLackingDescription ==
    tools_data.tools[CHOOSE i \in DOMAIN tools_data.tools :
                        LacksDescription(tools_data.tools[i])]

Emitted == website.skills \o website.commands \o website.agents \o website.gemini

ExactlyTheMissingDescriptionError ==
    /\ result.exc = ""
    /\ Len(result.errors) = 1
    /\ result.errors[1].kind = "missing_field"
    /\ result.errors[1].field = "description"
    /\ result.errors[1].subj = TheToolLackingDescription.d["name"].s

\* C10 as stated: for a tool that lacks `description` the validator
\* reports exactly one error, naming the field, and the website build
\* still emits an entry for the tool.
C10_MissingDescriptionEmitted ==
    /\ (OneToolLacksDescription /\ Validated) => ExactlyTheMissingDescriptionError
    /\ (OneToolLacksDescription /\ website.built) =>
          \E k \in DOMAIN Emitted :
              Emitted[k].name = TheToolLackingDescription.d["name"]

\* C10 amended: the validator reports exactly that one error, and the
\* website build leaves the tool out: it emits an entry for every other
\* tool and none for this one.
C10_MissingDescriptionSkipped ==
    /\ (OneToolLacksDescription /\ Validated) => ExactlyTheMissingDescriptionError
    /\ (OneToolLacksDescription /\ website.built) =>
          /\ website.exc = ""
          /\ Len(Emitted) = Len(tools_data.tools) - 1
          /\ \A k \in DOMAIN Emitted :
                Emitted[k].name # TheToolLackingDescription.d["name"]

\* C10 witness: both tools have run on a two-tool catalog in which one
\* tool lacks its description.
C10_Witness ==
    /\ OneToolLacksDescription
    /\ Validated
    /\ website.built
    /\ Len(tools_data.tools) >= 2

\* The names of the filesystem view.
ViewNames(dir) ==
    {get_filesystem_tools(dir)[k].name : k \in DOMAIN get_filesystem_tools(dir)}

\* The tool at position i is named, or unnamed, outside the filesystem view.
AbsentFromView(data, dir, i) ==
    \A n \in ViewNames(dir) : Get(data.tools[i], "name", None) # Str(n)

\* The document without the tool at position i.
WithoutTool(data, i) ==
    [data EXCEPT !.tools =
        SubSeq(@, 1, i - 1) \o SubSeq(@, i + 1, Len(@))]

\* The document with only the tools whose names occur in the view.
OnlyToolsInView(data, dir) ==
    [data EXCEPT !.tools =
        SelectSeq(@, LAMBDA t : \E n \in ViewNames(dir) :
                                   Get(t, "name", None) = Str(n))]

\* The filesystem-agreement errors of the validator run.
FilesystemErrors == SelectSeq(result.errors, LAMBDA e : Group(e) = 5)

\* C11: the reverse direction is not checked.  No filesystem-agreement
\* error names a catalog tool whose name is outside the filesystem view;
\* the filesystem-agreement errors are those of the catalog restricted to
\* the tools named in the view; and the catalog without any one tool named
\* outside the view (so also the catalog with such a tool added) gives the
\* same filesystem-agreement errors.
C11_ReverseNotChecked ==
    (/\ Validated
     /\ WellFormedTop(tools_data)
     /\ ToolsAreObjects(tools_data)
     /\ helpers_dir.given /\ helpers_dir.exists) =>
        /\ result.exc = ""
        /\ \A i \in DOMAIN tools_data.tools :
              AbsentFromView(tools_data, helpers_dir, i) =>
                /\ \A k \in DOMAIN FilesystemErrors :
                      Str(FilesystemErrors[k].subj)
                          # Get(tools_data.tools[i], "name", None)
                /\ validate_filesystem_tools_in_json(
                       WithoutTool(tools_data, i), helpers_dir)
                     = Returned(FilesystemErrors)
        /\ validate_filesystem_tools_in_json(
               OnlyToolsInView(tools_data, helpers_dir), helpers_dir)
             = Returned(FilesystemErrors)

\* C11 witness: a validated catalog holding a tool with a non-empty name
\* that the filesystem view lacks, next to a filesystem tool the catalog
\* gets wrong, so that there are filesystem-agreement errors to preserve.
C11_Witness ==
    /\ Validated
    /\ result.exc = ""
    /\ helpers_dir.given /\ helpers_dir.exists
    /\ FilesystemErrors # <<>>
    /\ \E i \in DOMAIN tools_data.tools :
          /\ AbsentFromView(tools_data, helpers_dir, i)
          /\ Get(tools_data.tools[i], "name", None) = Str(B)

\* The title of the registry's gem.
GemTitle == helpers_dir.gems.gems[1].title

\* A character of [a-z0-9].
IsSlugChar(ch) == IsAlnum(ch) /\ ch \notin Range(UpperCase)

\* The maximal runs of [a-z0-9] characters of s, cur being the run read so
\* far.
RECURSIVE Words(_, _)
Words(s, cur) ==
    LET done == IF cur = <<>> THEN <<>> ELSE <<cur>>
    IN  IF s = <<>> THEN done
        ELSE IF IsSlugChar(Head(s)) THEN Words(Tail(s), Append(cur, Head(s)))
        ELSE done \o Words(Tail(s), <<>>)

RECURSIVE JoinHyphen(_)
JoinHyphen(ws) ==
    IF ws = <<>> THEN <<>>
    ELSE IF Len(ws) = 1 THEN ws[1]
    ELSE ws[1] \o <<"-">> \o JoinHyphen(Tail(ws))

\* The documented rule: the lowercased title, every maximal run of
\* characters outside [a-z0-9] being one hyphen and no hyphen leading or
\* trailing, which is the runs of [a-z0-9] joined by single hyphens.
DocumentedSlug(title) == JoinHyphen(Words(Lower(title), <<>>))

\* The validator has scanned the registry against an empty catalog.
ScannedAlone == Validated /\ tools_data.tools = <<>>

\* C12: the name the scan derives from a gem title is the documented slug
\* of the title, slugifying it again returns it unchanged, and the two
\* documented titles give "my-cool-gem" and "multi-space".
C12_SlugRuleIdempotent ==
    ScannedAlone =>
        /\ result = Returned(<<Err("fs_missing", DocumentedSlug(GemTitle),
                                   "", "", Gem)>>)
        /\ title_to_slug(result.errors[1].subj) = result.errors[1].subj
        /\ GemTitle = MyCoolGem =>
              result.errors[1].subj =
                  <<"m", "y", "-", "c", "o", "o", "l", "-", "g", "e", "m">>
        /\ GemTitle = MultiSpace =>
              result.errors[1].subj =
                  <<"m", "u", "l", "t", "i", "-", "s", "p", "a", "c", "e">>

\* C12 witness: the scan has slugified a title in which a run of several
\* characters outside [a-z0-9] separates two alphanumerics and another
\* such character trails.
C12_Witness ==
    /\ ScannedAlone
    /\ GemTitle = MultiSpace
    /\ Len(result.errors) = 1
    /\ Len(result.errors[1].subj) = 11

\* The document lists its entries, if it is there at all.
ListsPlugins(config) ==
    (config.exists /\ config.parses /\ config.has_plugins) =>
        config.plugins_ty = "list"

\* The entries the build reads: none without the file or the key.
ListedPlugins(config) ==
    IF config.exists /\ config.parses /\ config.has_plugins
    THEN config.plugins ELSE <<>>

\* The marketplace build got as far as the external plugins.
ToolsCounted ==
    /\ marketplace.built
    /\ marketplace.exit = 0
    /\ \A i \in DOMAIN tools_data.tools : IsDict(tools_data.tools[i])

\* An entry that has both `name` and `source`.
ValidPlugin(p) == IsDict(p) /\ {"name", "source"} \subseteq Keys(p)

\* The plugins list is the valid entries, in their order, by name and
\* source, and then the bundled entry.
ExternalsThenBundled ==
    LET valid == SelectSeq(ListedPlugins(plugins_config), ValidPlugin)
    IN  /\ marketplace.exc = ""
        /\ Len(marketplace.plugins) = Len(valid) + 1
        /\ \A k \in DOMAIN valid :
              /\ marketplace.plugins[k].name = valid[k].d["name"]
              /\ marketplace.plugins[k].source = valid[k].d["source"]
        /\ marketplace.plugins[Len(valid) + 1] = BundledPlugin

\* C13: with K entries that have `name` and `source`, the plugins list has
\* K+1 entries, the K externals in input order and then the bundled
\* 'odh-ai-helpers' entry (one entry when there is no external plugin);
\* every entry lacking `name` or `source` is skipped on its own.
C13_ExternalsThenBundled ==
    (ToolsCounted /\ ListsPlugins(plugins_config)) => ExternalsThenBundled

\* The same restricted to documents none of whose entries is a number, a
\* boolean or null.
C13_ExternalsThenBundledOfContainers ==
    (/\ ToolsCounted
     /\ ListsPlugins(plugins_config)
     /\ \A i \in DOMAIN ListedPlugins(plugins_config) :
           ~ContainsRaises(ListedPlugins(plugins_config)[i])) => ExternalsThenBundled

\* The website build returned its data.
WebsiteBuilt == website.built /\ website.exc = ""

\* The positions of the tools of the given type that the build keeps.
KeptOfType(type) ==
    {i \in DOMAIN tools_data.tools :
        /\ ~SkipsTool(tools_data.tools[i])
        /\ tools_data.tools[i].d["type"] = Str(type)}

\* The i-th smallest element of the set S of positions.
RECURSIVE Nth(_, _)
Nth(S, i) ==
    LET m == CHOOSE x \in S : \A y \in S : x <= y
    IN  IF i = 1 THEN m ELSE Nth(S \ {m}, i - 1)

\* The array holds one entry per kept tool of the type, in manifest order,
\* with the tool's name, description and category.
ArrayOfType(array, type) ==
    /\ Len(array) = Cardinality(KeptOfType(type))
    /\ \A k \in DOMAIN array :
          LET tool == tools_data.tools[Nth(KeptOfType(type), k)]
          IN  /\ array[k].name = tool.d["name"]
              /\ array[k].description = tool.d["description"]
              /\ array[k].category = tool.d["category"]

\* C14: each of the arrays skills, commands, agents and gemini holds
\* exactly the tools of its type that were not skipped, once each and in
\* manifest order; so no tool is in two arrays and a tool of another type
\* is in none.
C14_OrderedPartition ==
    WebsiteBuilt =>
        /\ ArrayOfType(website.skills, Skill)
        /\ ArrayOfType(website.commands, Command)
        /\ ArrayOfType(website.agents, Agent)
        /\ ArrayOfType(website.gemini, Gem)

\* C14 witness: the build of a manifest of two skills, b before a, with a
\* tool of unknown type between them.
C14_Witness ==
    /\ WebsiteBuilt
    /\ Len(tools_data.tools) = 3
    /\ tools_data.tools[2] = Tool(A, X, Str(C))
    /\ Len(website.skills) = 2
    /\ website.skills[1].name = Str(B)
    /\ website.skills[2].name = Str(A)

\* The names each rule of the scan derives from the tree.
SkillNames(dir) ==
    IF ~dir.skills.exists THEN {}
    ELSE {dir.skills.items[i].name :
            i \in {j \in DOMAIN dir.skills.items : dir.skills.items[j].is_dir}}

MarkdownNames(directory) ==
    IF ~directory.exists THEN {}
    ELSE {PathStem(directory.items[i].name) :
            i \in {j \in DOMAIN directory.items :
                     /\ ~directory.items[j].is_dir
                     /\ PathSuffix(directory.items[j].name) = <<".", "m", "d">>
                     /\ Lower(directory.items[j].name) # Lower(Readme)}}

GemNames(dir) ==
    IF ~(dir.gems.exists /\ dir.gems.parses /\ dir.yaml) THEN {}
    ELSE {title_to_slug(dir.gems.gems[i].title) :
            i \in {j \in DOMAIN dir.gems.gems : dir.gems.gems[j].has_title}}

\* The type of the last rule, in the order skills, commands, agents, gems,
\* that derives the name.
LastRuleType(dir, name) ==
    IF name \in GemNames(dir) THEN Gem
    ELSE IF name \in MarkdownNames(dir.agents) THEN Agent
    ELSE IF name \in MarkdownNames(dir.commands) THEN Command
    ELSE Skill

DerivedNames(dir) ==
    SkillNames(dir) \cup MarkdownNames(dir.commands)
        \cup MarkdownNames(dir.agents) \cup GemNames(dir)

\* The number of rules that derive the name.
RulesDeriving(dir, name) ==
    Cardinality({r \in 1..4 :
        name \in <<SkillNames(dir), MarkdownNames(dir.commands),
                   MarkdownNames(dir.agents), GemNames(dir)>>[r]})

\* The validator has scanned the tree against an empty catalog, so that
\* its errors list the filesystem view.
ScannedTree ==
    /\ Validated
    /\ tools_data = Manifest(<<>>, <<>>)
    /\ helpers_dir.given /\ helpers_dir.exists

\* C15: the view holds one entry per derived name, its type that of the
\* last of the rules skills, commands, agents, gems deriving it; nothing is
\* reported for a name several rules derive, and a missing directory or
\* registry adds no entry and no error.
C15_LastRuleWins ==
    ScannedTree =>
        /\ result.exc = ""
        /\ Len(result.errors) = Cardinality(DerivedNames(helpers_dir))
        /\ \A name \in DerivedNames(helpers_dir) :
              \E k \in DOMAIN result.errors :
                  result.errors[k] =
                      Err("fs_missing", name, "", "",
                          LastRuleType(helpers_dir, name))

\* C15 witness: the scan of a tree in which all four rules derive the name
\* a and the first three the name b: a is a gem and b an agent.
C15_Witness ==
    /\ ScannedTree
    /\ RulesDeriving(helpers_dir, A) = 4
    /\ RulesDeriving(helpers_dir, B) = 3
    /\ result.errors = <<Err("fs_missing", B, "", "", Agent),
                         Err("fs_missing", A, "", "", Gem)>>

\* The catalog names the registry's gem by the validator's slug of its
\* title.
GemNamedBySlug == tools_data = GemManifest(GemTitle)

\* C16: the website builder's title_to_kebab_case returns what the
\* validator's title_to_slug returns for the gem's title, and the website
\* build gives the gem named by that slug the link of its registry entry.
C16_SlugsAgree ==
    (website.built /\ GemNamedBySlug) =>
        /\ title_to_kebab_case(GemTitle) = title_to_slug(GemTitle)
        /\ website.exc = ""
        /\ Len(website.gemini) = 1
        /\ website.gemini[1].link = helpers_dir.gems.gems[1].link

====






